---------------------------- MODULE Spec2Model ----------------------------
(***************************************************************************)
(* The MongoDB Atlas data loader of ml-service/scripts/load_initial_data.py *)
(* as a state machine: the validators and loaders as operators, the         *)
(* MongoDBManager operations and main() as actions over the database.       *)
(***************************************************************************)
EXTENDS Integers, Sequences, FiniteSets, TLC

(***************************************************************************)
(* Text.  A str is a sequence of one-character strings; the bytes of a file *)
(* are a sequence over a small alphabet: "a" (an ASCII letter), " " (an     *)
(* ASCII blank), "C3" "A9" (the two bytes of U+00E9 in UTF-8) and "FF" (a   *)
(* byte that no UTF-8 text contains).                                       *)
(***************************************************************************)
Range(s) == {s[i] : i \in 1..Len(s)}

Rep(x, n) == [i \in 1..n |-> x]

\* The value None of a cell that csv.DictReader fills in for a short row.
NoneVal == <<"<None>">>

\* bytes.decode('utf-8') of one cell: [ok, s]; ok is FALSE on UnicodeDecodeError.
RECURSIVE Utf8Decode(_)
Utf8Decode(bs) ==
    IF bs = <<>> THEN [ok |-> TRUE, s |-> <<>>]
    ELSE IF Head(bs) = "C3"
         THEN IF Len(bs) >= 2 /\ bs[2] = "A9"
              THEN LET r == Utf8Decode(SubSeq(bs, 3, Len(bs)))
                   IN  [ok |-> r.ok, s |-> <<"e'">> \o r.s]
              ELSE [ok |-> FALSE, s |-> <<>>]
    ELSE IF Head(bs) \in {"A9", "FF"}
         THEN [ok |-> FALSE, s |-> <<>>]
    ELSE LET r == Utf8Decode(Tail(bs))
         IN  [ok |-> r.ok, s |-> <<Head(bs)>> \o r.s]

\* bytes.decode('latin-1') of one cell: every byte is one character, never fails.
Latin1Char(b) ==
    CASE b = "C3" -> "A~"
      [] b = "A9" -> "(c)"
      [] b = "FF" -> "y:"
      [] OTHER -> b

Latin1Decode(bs) == [ok |-> TRUE, s |-> [i \in 1..Len(bs) |-> Latin1Char(bs[i])]]

Decode(enc, bs) == IF enc = "utf-8" THEN Utf8Decode(bs) ELSE Latin1Decode(bs)

\* str.strip(): the text without its leading and trailing blanks.
RECURSIVE LStrip(_)
LStrip(s) == IF s # <<>> /\ Head(s) = " " THEN LStrip(Tail(s)) ELSE s

RECURSIVE RStrip(_)
RStrip(s) ==
    IF s # <<>> /\ s[Len(s)] = " " THEN RStrip(SubSeq(s, 1, Len(s) - 1)) ELSE s

strip(s) == RStrip(LStrip(s))

(***************************************************************************)
(* DataValidator.validate_review                                           *)
(***************************************************************************)
required_review_fields == <<"Destination", "District", "Location_Type", "Review">>

\* Minimum length of the stripped review text.
MinReviewLen == 10

\* The first required field that is absent from the row, None or empty; 0 if none.
FirstMissing(row) ==
    LET bad == {i \in 1..Len(required_review_fields) :
                    \/ required_review_fields[i] \notin DOMAIN row
                    \/ row[required_review_fields[i]] = NoneVal
                    \/ row[required_review_fields[i]] = <<>>}
    IN  IF bad = {} THEN 0 ELSE CHOOSE i \in bad : \A j \in bad : i <= j

\* [ok, doc, err]: the review document, or the ValueError raised.
validate_review(row) ==
    LET m == FirstMissing(row)
    IN  IF m # 0
        THEN [ok |-> FALSE, err |-> "MissingField", doc |-> <<>>]
        ELSE LET review_doc == [destination   |-> strip(row["Destination"]),
                                district      |-> strip(row["District"]),
                                location_type |-> strip(row["Location_Type"]),
                                review_text   |-> strip(row["Review"])]
             IN  IF Len(review_doc.review_text) < MinReviewLen
                 THEN [ok |-> FALSE, err |-> "TooShort", doc |-> <<>>]
                 ELSE [ok |-> TRUE, err |-> "", doc |-> review_doc]

(***************************************************************************)
(* DataLoader.load_csv_reviews                                             *)
(*                                                                         *)
(* A CSV file is [exists, header, rows, ahead]: header is the sequence of  *)
(* column names, rows the data lines, each a sequence of cells (bytes); a  *)
(* line with no cell is a blank line, which csv.DictReader skips.  The     *)
(* text layer decodes the file chunk by chunk, so a byte that is not UTF-8 *)
(* raises UnicodeDecodeError only when its chunk is read: ahead is the     *)
(* number of data lines the reader has handed out before that, or -1 when  *)
(* the chunk is the first one and not even the header was read.  The size  *)
(* of the columns the loader ignores is not modelled, so every such split  *)
(* is a possible file.                                                      *)
(***************************************************************************)
RowUndecodable(cells) == \E i \in 1..Len(cells) : ~Utf8Decode(cells[i]).ok

\* Index of the first data line holding a byte that is not UTF-8; 0 if none.
FirstBad(rows) ==
    LET bad == {i \in 1..Len(rows) : RowUndecodable(rows[i])}
    IN  IF bad = {} THEN 0 ELSE CHOOSE i \in bad : \A j \in bad : i <= j

\* Position of column c in the header (the last one, as dict(zip(..)) keeps it).
ColIndex(header, c) ==
    CHOOSE i \in 1..Len(header) :
        header[i] = c /\ \A j \in 1..Len(header) : header[j] = c => j <= i

\* The dict csv.DictReader yields for one line: short lines are filled with None.
RowDict(header, cells, enc) ==
    [c \in Range(header) |->
        IF ColIndex(header, c) <= Len(cells)
        THEN Decode(enc, cells[ColIndex(header, c)]).s
        ELSE NoneVal]

\* The loop "for idx, row in enumerate(reader, start=2)" over the first n lines:
\* [reviews, errors, validated, idx]; errors holds <<idx, message>>.
RECURSIVE ReadRows(_, _, _, _)
ReadRows(header, rows, enc, n) ==
    IF n = 0
    THEN [reviews |-> <<>>, errors |-> <<>>, validated |-> 0, idx |-> 2]
    ELSE LET acc == ReadRows(header, rows, enc, n - 1)
             cells == rows[n]
         IN  IF cells = <<>>
             THEN acc
             ELSE LET v == validate_review(RowDict(header, cells, enc))
                  IN  [reviews   |-> IF v.ok THEN Append(acc.reviews, v.doc)
                                              ELSE acc.reviews,
                       errors    |-> IF v.ok THEN acc.errors
                                              ELSE Append(acc.errors, <<acc.idx, v.err>>),
                       validated |-> acc.validated + 1,
                       idx       |-> acc.idx + 1]

expected_headers == Range(required_review_fields)

CsvResult(status, path, reviews, errors, validated) ==
    [status |-> status, path |-> path, reviews |-> reviews, errors |-> errors,
     validated |-> validated]

\* The latin-1 retry of lines 266-277: the whole file again, no header check,
\* appending to the lists the UTF-8 pass has already filled.
Latin1Retry(file, utf) ==
    LET lat == ReadRows(file.header, file.rows, "latin-1", Len(file.rows))
    IN  CsvResult("ok", "latin-1", utf.reviews \o lat.reviews,
                  utf.errors \o lat.errors, utf.validated + lat.validated)

load_csv_reviews(file) ==
    LET bad  == FirstBad(file.rows)
        none == ReadRows(file.header, file.rows, "utf-8", 0)
    IN  IF ~file.exists
        THEN CsvResult("FileNotFoundError", "none", <<>>, <<>>, 0)
        ELSE IF bad # 0 /\ file.ahead = -1
        THEN Latin1Retry(file, none)
        ELSE IF ~(expected_headers \subseteq Range(file.header))
        THEN CsvResult("ValueError", "utf-8", <<>>, <<>>, 0)
        ELSE IF bad = 0
        THEN LET utf == ReadRows(file.header, file.rows, "utf-8", Len(file.rows))
             IN  CsvResult("ok", "utf-8", utf.reviews, utf.errors, utf.validated)
        ELSE Latin1Retry(file, ReadRows(file.header, file.rows, "utf-8", file.ahead))

(***************************************************************************)
(* JSON values, tagged by type.  A number carries whether json.load made   *)
(* it an int or a float; pymongo stores the one as int32/int64, the other  *)
(* as double.                                                              *)
(***************************************************************************)
JNull == [t |-> "null"]

JStr(s) == [t |-> "str", s |-> s]

JInt(n) == [t |-> "int", n |-> n]

JFloat(n) == [t |-> "float", n |-> n]

JArr(a) == [t |-> "arr", a |-> a]

JObj(f) == [t |-> "obj", f |-> f]

IsNum(v) == v.t \in {"int", "float"}

\* dict.get(key, default)
Get(obj, key, default) == IF key \in DOMAIN obj.f THEN obj.f[key] ELSE default

(***************************************************************************)
(* DataValidator.validate_location                                         *)
(***************************************************************************)
required_location_fields == <<"locationId", "name", "coordinates">>

LonMin == -180

LonMax == 180

LatMin == -90

LatMax == 90

LocResult(outcome, err, doc) == [outcome |-> outcome, err |-> err, doc |-> doc]

\* The metadata block of lines 190-194 (the timestamps are not modelled).
LocationMetadata == JObj([source |-> JStr("json_import")])

WithMetadata(location) ==
    JObj([k \in DOMAIN location.f \cup {"metadata"} |->
            IF k = "metadata" THEN LocationMetadata ELSE location.f[k]])

\* len(coord_array): -1 stands for the TypeError of a value that has no len().
PyLen(v) ==
    CASE v.t = "arr" -> Len(v.a)
      [] v.t = "str" -> Len(v.s)
      [] v.t = "obj" -> Cardinality(DOMAIN v.f)
      [] OTHER -> -1

\* (range checks that exclude the bounds themselves)
CheckRangesOpen(location, coord_array) ==
    IF coord_array.t # "arr" \/ ~IsNum(coord_array.a[1])
    THEN LocResult("TypeError", "", JNull)
    ELSE IF ~(LonMin < coord_array.a[1].n /\ coord_array.a[1].n < LonMax)
    THEN LocResult("ValueError", "OutOfRange", JNull)
    ELSE IF ~IsNum(coord_array.a[2])
    THEN LocResult("TypeError", "", JNull)
    ELSE IF ~(LatMin < coord_array.a[2].n /\ coord_array.a[2].n < LatMax)
    THEN LocResult("ValueError", "OutOfRange", JNull)
    ELSE LocResult("ok", "", WithMetadata(location))

\* Lines 182-187, for a coord_array of length 2.
CheckRanges(location, coord_array) ==
    IF coord_array.t # "arr" \/ ~IsNum(coord_array.a[1])
    THEN LocResult("TypeError", "", JNull)
    ELSE IF ~(LonMin <= coord_array.a[1].n /\ coord_array.a[1].n <= LonMax)
    THEN LocResult("ValueError", "OutOfRange", JNull)
    ELSE IF ~IsNum(coord_array.a[2])
    THEN LocResult("TypeError", "", JNull)
    ELSE IF ~(LatMin <= coord_array.a[2].n /\ coord_array.a[2].n <= LatMax)
    THEN LocResult("ValueError", "OutOfRange", JNull)
    ELSE LocResult("ok", "", WithMetadata(location))

\* Lines 173-180: the coordinates object of a location that is a dict.
CheckCoordinates(location) ==
    LET coords == Get(location, "coordinates", JObj(<<>>))
    IN  IF coords.t # "obj"
        THEN LocResult("AttributeError", "", JNull)
        ELSE IF Get(coords, "type", JNull) # JStr("Point")
        THEN LocResult("ValueError", "InvalidGeoType", JNull)
        ELSE LET coord_array == Get(coords, "coordinates", JArr(<<>>))
             IN  IF PyLen(coord_array) = -1
                 THEN LocResult("TypeError", "", JNull)
                 ELSE IF PyLen(coord_array) # 2
                 THEN LocResult("ValueError", "InvalidCoordinateArity", JNull)
                 ELSE CheckRanges(location, coord_array)

\* [outcome, err, doc]: outcome is "ok", "ValueError", or the exception that
\* "field not in location", ".get" or a comparison raises on a value of the
\* wrong type.
validate_location(location) ==
    IF location.t \in {"null", "int", "float"}
    THEN LocResult("TypeError", "", JNull)
    ELSE IF location.t \in {"str", "arr"}
    THEN LocResult("ValueError", "MissingField", JNull)
    ELSE IF \E i \in 1..Len(required_location_fields) :
                required_location_fields[i] \notin DOMAIN location.f
    THEN LocResult("ValueError", "MissingField", JNull)
    ELSE CheckCoordinates(location)

(***************************************************************************)
(* DataLoader.load_json_locations                                          *)
(*                                                                         *)
(* A JSON file is [exists, valid, data]: valid says whether json.load      *)
(* parses it, data is the value it yields.                                 *)
(***************************************************************************)
JsonResult(status, locations, errors, validated) ==
    [status |-> status, locations |-> locations, errors |-> errors,
     validated |-> validated]

\* The loop of lines 329-335 over the first n elements.  A ValueError is
\* recorded with location.get('name', 'Unknown'), which itself raises
\* AttributeError when the element is no dict.
RECURSIVE ReadLocations(_, _)
ReadLocations(data, n) ==
    IF n = 0
    THEN JsonResult("ok", <<>>, <<>>, 0)
    ELSE LET acc == ReadLocations(data, n - 1)
             v   == validate_location(data[n])
         IN  IF acc.status # "ok"
             THEN acc
             ELSE IF v.outcome = "ok"
             THEN JsonResult("ok", Append(acc.locations, v.doc), acc.errors,
                             acc.validated + 1)
             ELSE IF v.outcome = "ValueError" /\ data[n].t = "obj"
             THEN JsonResult("ok", acc.locations, Append(acc.errors, <<n, v.err>>),
                             acc.validated + 1)
             ELSE IF v.outcome = "ValueError"
             THEN JsonResult("AttributeError", <<>>, acc.errors, acc.validated + 1)
             ELSE JsonResult(v.outcome, <<>>, acc.errors, acc.validated + 1)

load_json_locations(file) ==
    IF ~file.exists
    THEN JsonResult("FileNotFoundError", <<>>, <<>>, 0)
    ELSE IF ~file.valid
    THEN JsonResult("ValueError", <<>>, <<>>, 0)
    ELSE IF file.data.t # "arr"
    THEN JsonResult("ValueError", <<>>, <<>>, 0)
    ELSE ReadLocations(file.data.a, Len(file.data.a))

(***************************************************************************)
(* The database.  db = [exists, validator, docs, indexes], each a function *)
(* of the collection: whether it exists, whether it was created with the   *)
(* $jsonSchema validator of create_collections, its documents in insertion *)
(* order, and the names of its indexes in creation order (the index on _id *)
(* is left out).                                                            *)
(***************************************************************************)
REVIEWS_COLLECTION == "reviews"

LOCATIONS_COLLECTION == "locations"

Colls == {REVIEWS_COLLECTION, LOCATIONS_COLLECTION}

BATCH_SIZE == 100

\* "minLength": 10 of reviews_schema.
SchemaMinLength == 10

\* reviews_schema, on a document that validate_review built.
ReviewSchemaOk(doc) == Len(doc.review_text) >= SchemaMinLength

IsDouble(v) == v.t = "float"

\* locations_schema: locationId and name strings, coordinates an object with
\* type "Point" and an array of exactly two doubles; category, details and
\* logistics of the stated type when present.
CoordinatesSchemaOk(c) ==
    /\ c.t = "obj"
    /\ {"type", "coordinates"} \subseteq DOMAIN c.f
    /\ c.f["type"] = JStr("Point")
    /\ c.f["coordinates"].t = "arr"
    /\ Len(c.f["coordinates"].a) = 2
    /\ \A i \in 1..2 : IsDouble(c.f["coordinates"].a[i])

LocationSchemaOk(doc) ==
    /\ doc.t = "obj"
    /\ {"locationId", "name", "coordinates"} \subseteq DOMAIN doc.f
    /\ doc.f["locationId"].t = "str"
    /\ doc.f["name"].t = "str"
    /\ CoordinatesSchemaOk(doc.f["coordinates"])
    /\ ("category" \in DOMAIN doc.f => doc.f["category"].t = "arr")
    /\ ("details" \in DOMAIN doc.f => doc.f["details"].t = "obj")
    /\ ("logistics" \in DOMAIN doc.f => doc.f["logistics"].t = "obj")

SchemaOk(coll, doc) ==
    IF coll = REVIEWS_COLLECTION THEN ReviewSchemaOk(doc) ELSE LocationSchemaOk(doc)

LocId(doc) == Get(doc, "locationId", JNull)

\* Two documents share a locationId: there are fewer ids than documents.
HasDuplicateIds(docs) ==
    Cardinality({LocId(docs[i]) : i \in 1..Len(docs)}) < Len(docs)

UNIQUE_INDEX == "location_id_unique_index"

\* The eleven create_index calls of create_indexes, in program order.
IndexPlan ==
    << [coll |-> REVIEWS_COLLECTION, name |-> "review_text_index", unique |-> FALSE,
        keys |-> <<<<"review_text", "TEXT">>>>],
       [coll |-> REVIEWS_COLLECTION, name |-> "destination_index", unique |-> FALSE,
        keys |-> <<<<"destination", "ASCENDING">>>>],
       [coll |-> REVIEWS_COLLECTION, name |-> "district_index", unique |-> FALSE,
        keys |-> <<<<"district", "ASCENDING">>>>],
       [coll |-> REVIEWS_COLLECTION, name |-> "location_type_index", unique |-> FALSE,
        keys |-> <<<<"location_type", "ASCENDING">>>>],
       [coll |-> REVIEWS_COLLECTION, name |-> "destination_location_type_index",
        unique |-> FALSE,
        keys |-> <<<<"destination", "ASCENDING">>, <<"location_type", "ASCENDING">>>>],
       [coll |-> REVIEWS_COLLECTION, name |-> "created_at_index", unique |-> FALSE,
        keys |-> <<<<"created_at", "DESCENDING">>>>],
       [coll |-> LOCATIONS_COLLECTION, name |-> "coordinates_geospatial_index",
        unique |-> FALSE,
        keys |-> <<<<"coordinates", "GEOSPHERE">>>>],
       [coll |-> LOCATIONS_COLLECTION, name |-> UNIQUE_INDEX, unique |-> TRUE,
        keys |-> <<<<"locationId", "ASCENDING">>>>],
       [coll |-> LOCATIONS_COLLECTION, name |-> "name_index", unique |-> FALSE,
        keys |-> <<<<"name", "ASCENDING">>>>],
       [coll |-> LOCATIONS_COLLECTION, name |-> "category_index", unique |-> FALSE,
        keys |-> <<<<"category", "ASCENDING">>>>],
       [coll |-> LOCATIONS_COLLECTION, name |-> "location_text_index", unique |-> FALSE,
        keys |-> <<<<"name", "TEXT">>, <<"details.description", "TEXT">>,
                   <<"details.historicalInfo", "TEXT">>>>] >>

NoDb ==
    [exists    |-> [c \in Colls |-> FALSE],
     validator |-> [c \in Colls |-> FALSE],
     docs      |-> [c \in Colls |-> <<>>],
     indexes   |-> [c \in Colls |-> <<>>]]

UniqueIndexed(d) == UNIQUE_INDEX \in Range(d.indexes[LOCATIONS_COLLECTION])

\* Collection.drop(): the documents, the indexes and the validator go.
Drop(d, c) ==
    [exists    |-> [d.exists EXCEPT ![c] = FALSE],
     validator |-> [d.validator EXCEPT ![c] = FALSE],
     docs      |-> [d.docs EXCEPT ![c] = <<>>],
     indexes   |-> [d.indexes EXCEPT ![c] = <<>>]]

\* Database.create_collection(c, validator=...)
Create(d, c) ==
    [d EXCEPT !.exists = [d.exists EXCEPT ![c] = TRUE],
              !.validator = [d.validator EXCEPT ![c] = TRUE]]

(***************************************************************************)
(* MongoDBManager.create_collections.  Its five requests are               *)
(* list_collection_names, the two drops and the two create_collection;     *)
(* failAt = 0 is the run in which none fails, failAt = k the one in which  *)
(* request k raises and requests 1..k-1 have taken effect.                 *)
(***************************************************************************)
CreateStages == 5

Reached(failAt, k) == failAt = 0 \/ failAt > k

\* (a create_collections that keeps the collections it finds)
create_collections_keep(d, failAt) ==
    LET d4 == IF Reached(failAt, 4) THEN Create(d, REVIEWS_COLLECTION) ELSE d
        d5 == IF Reached(failAt, 5) THEN Create(d4, LOCATIONS_COLLECTION) ELSE d4
    IN  d5

create_collections(d, failAt) ==
    LET d2 == IF Reached(failAt, 2) /\ d.exists[REVIEWS_COLLECTION]
              THEN Drop(d, REVIEWS_COLLECTION) ELSE d
        d3 == IF Reached(failAt, 3) /\ d.exists[LOCATIONS_COLLECTION]
              THEN Drop(d2, LOCATIONS_COLLECTION) ELSE d2
        d4 == IF Reached(failAt, 4) THEN Create(d3, REVIEWS_COLLECTION) ELSE d3
        d5 == IF Reached(failAt, 5) THEN Create(d4, LOCATIONS_COLLECTION) ELSE d4
    IN  d5

\* What those requests did, for the log of the run's writes.
CreateOps(d, failAt) ==
    (IF Reached(failAt, 2) /\ d.exists[REVIEWS_COLLECTION] THEN <<"drop reviews">> ELSE <<>>)
    \o (IF Reached(failAt, 3) /\ d.exists[LOCATIONS_COLLECTION] THEN <<"drop locations">> ELSE <<>>)
    \o (IF Reached(failAt, 4) THEN <<"create reviews">> ELSE <<>>)
    \o (IF Reached(failAt, 5) THEN <<"create locations">> ELSE <<>>)

(***************************************************************************)
(* Collection.insert_many(batch, ordered=False).  The server takes the     *)
(* documents of the batch one after the other and goes on after a          *)
(* rejected one.  A document is rejected by the collection's validator or  *)
(* by the unique index on locationId.  The result is                       *)
(* [docs, nInserted, nErrors, attempted]: the collection's documents, and  *)
(* what result.inserted_ids or BulkWriteError.details report.              *)
(***************************************************************************)
\* Which documents of the batch the server accepts: document n is accepted if
\* the validator passes it and, under the unique index, no document of the
\* collection and no accepted document before it in the batch has its locationId.
Acceptance(d, coll, batch) ==
    LET uniq   == coll = LOCATIONS_COLLECTION /\ UniqueIndexed(d)
        ids    == IF uniq THEN {LocId(d.docs[coll][i]) : i \in 1..Len(d.docs[coll])}
                          ELSE {}
        \* (<<>> \o f makes TLC tabulate f once instead of at every use)
        passes == <<>> \o [n \in 1..Len(batch) |->
                              d.validator[coll] => SchemaOk(coll, batch[n])]
        id     == <<>> \o [n \in 1..Len(batch) |->
                              IF uniq THEN LocId(batch[n]) ELSE JNull]
    IN  [n \in 1..Len(batch) |->
            /\ passes[n]
            /\ uniq => /\ id[n] \notin ids
                       /\ \A m \in 1..(n - 1) : passes[m] => id[m] # id[n]]

\* The result of a request that has attempted the first `attempted` documents.
InsertResult(d, coll, batch, accepted, attempted) ==
    LET tagged == <<>> \o [n \in 1..attempted |-> [doc |-> batch[n], ok |-> accepted[n]]]
        kept   == SelectSeq(tagged, LAMBDA p : p.ok)
    IN  [docs      |-> d.docs[coll] \o [k \in 1..Len(kept) |-> kept[k].doc],
         nInserted |-> Len(kept),
         nErrors   |-> attempted - Len(kept),
         attempted |-> attempted]

\* (insert_many with ordered=True: the server stops at the first rejected document)
insert_many_ordered(d, coll, batch) ==
    LET accepted == Acceptance(d, coll, batch)
        rejected == {n \in 1..Len(batch) : ~accepted[n]}
    IN  InsertResult(d, coll, batch, accepted,
                     IF rejected = {} THEN Len(batch)
                     ELSE CHOOSE n \in rejected : \A m \in rejected : n <= m)

insert_many(d, coll, batch) ==
    InsertResult(d, coll, batch, Acceptance(d, coll, batch), Len(batch))

\* An insert into a collection that does not exist creates it, with no validator.
AfterInsert(d, coll, r) ==
    [d EXCEPT !.exists = [d.exists EXCEPT ![coll] = TRUE],
              !.docs = [d.docs EXCEPT ![coll] = r.docs]]

(***************************************************************************)
(* The try/except of the batch loop (lines 575-581 and 605-610): cur is    *)
(* the loop's [i, inserted, errors], r the result of insert_many.  A       *)
(* result with write errors is the BulkWriteError branch.                  *)
(***************************************************************************)
\* (a loop without the except clause: the BulkWriteError leaves the method)
HandleBatchUncaught(cur, r, batchLen) ==
    IF r.nErrors = 0
    THEN [raised |-> FALSE, inserted |-> cur.inserted + batchLen, errors |-> cur.errors]
    ELSE [raised |-> TRUE, inserted |-> cur.inserted, errors |-> cur.errors]

\* (an except clause that does not add e.details['nInserted'])
HandleBatchNoPartial(cur, r, batchLen) ==
    IF r.nErrors = 0
    THEN [raised |-> FALSE, inserted |-> cur.inserted + batchLen, errors |-> cur.errors]
    ELSE [raised |-> FALSE, inserted |-> cur.inserted,
          errors |-> cur.errors + r.nErrors]

\* Lines 575-581 and 605-610.
HandleBatch(cur, r, batchLen) ==
    IF r.nErrors = 0
    THEN [raised |-> FALSE, inserted |-> cur.inserted + batchLen, errors |-> cur.errors]
    ELSE [raised |-> FALSE, inserted |-> cur.inserted + r.nInserted,
          errors |-> cur.errors + r.nErrors]

\* (a step one short of the batch size)
NextOffsetOverlap(i) == i + BATCH_SIZE - 1

\* range(0, total, BATCH_SIZE) advanced by one batch.
NextOffset(i) == i + BATCH_SIZE

Min(a, b) == IF a <= b THEN a ELSE b

(***************************************************************************)
(* MongoDBManager.create_indexes.  create_index k of the plan fails when   *)
(* it is the unique index and two documents share a locationId; any other  *)
(* may fail for the server's reasons.  An index that exists is left as is; *)
(* a collection that does not exist is created by its first index.         *)
(***************************************************************************)
NumIndexes == 11

CreateIndexAt(d, k) ==
    LET ix == IndexPlan[k]
    IN  [d EXCEPT !.exists = [d.exists EXCEPT ![ix.coll] = TRUE],
                  !.indexes = [d.indexes EXCEPT ![ix.coll] =
                                  IF ix.name \in Range(d.indexes[ix.coll])
                                  THEN d.indexes[ix.coll]
                                  ELSE Append(d.indexes[ix.coll], ix.name)]]

\* The first index whose creation the data makes fail; 0 if none.
ForcedFailure(d) ==
    LET bad == {k \in 1..NumIndexes :
                   /\ IndexPlan[k].unique
                   /\ IndexPlan[k].name \notin Range(d.indexes[IndexPlan[k].coll])
                   /\ HasDuplicateIds(d.docs[IndexPlan[k].coll])}
    IN  IF bad = {} THEN 0 ELSE CHOOSE k \in bad : \A j \in bad : k <= j

\* The database after create_index 1..n.
RECURSIVE CreateIndexesUpTo(_, _)
CreateIndexesUpTo(d, n) ==
    IF n = 0 THEN d ELSE CreateIndexAt(CreateIndexesUpTo(d, n - 1), n)

\* (a create_indexes that undoes what it has created when a create_index raises)
create_indexes_rollback(d, failAt) ==
    IF failAt = 0 THEN CreateIndexesUpTo(d, NumIndexes) ELSE d

\* failAt = 0: all eleven are created; failAt = k: create_index k raises.
create_indexes(d, failAt) ==
    IF failAt = 0 THEN CreateIndexesUpTo(d, NumIndexes)
                  ELSE CreateIndexesUpTo(d, failAt - 1)

IndexOps(failAt) ==
    [k \in 1..(IF failAt = 0 THEN NumIndexes ELSE failAt - 1) |-> "index"]

\* The failure points the database allows.
IndexFailures(d) ==
    LET forced == ForcedFailure(d)
    IN  IF forced = 0 THEN 0..NumIndexes ELSE 1..forced

(***************************************************************************)
(* Input files.                                                            *)
(***************************************************************************)
\* Data lines of the CSV files the loaders are checked on, and of those main() runs on.
MaxCsvRows == 2

MainCsvRows == 1

\* Elements of the JSON arrays the loaders are checked on, and of those main() runs on.
MaxJsonElems == 2

MainJsonElems == 2

\* Processes started one after the other on the same files and database.
MaxRuns == 2

\* Calls the driver of the insert operations makes.
MaxCalls == 1

\* Rejected documents placed in a long list.
MaxMarked == 3

SeqsUpTo(S, n) == UNION {[1..k -> S] : k \in 0..n}

A1 == <<"a">>

CellOk == Rep("a", 10)

CellShort == Rep("a", 2)

CellPadded == <<" ">> \o Rep("a", 9) \o <<" ">>

CellAccent == Rep("a", 8) \o <<"C3", "A9">>

CellBadByte == Rep("a", 10) \o <<"FF">>

RowOk == <<A1, A1, A1, CellOk>>

RowOk2 == <<A1, <<"a", "a">>, A1, CellOk>>

RowShort == <<A1, A1, A1, CellShort>>

RowNoReview == <<A1, A1, A1>>

RowEmptyDest == <<<<>>, A1, A1, CellOk>>

RowBlankDest == <<<<" ">>, A1, A1, CellOk>>

RowPadded == <<A1, A1, A1, CellPadded>>

RowAccent == <<A1, A1, A1, CellAccent>>

RowBadByte == <<A1, A1, A1, CellBadByte>>

BlankLine == <<>>

RowPool ==
    {RowOk, RowOk2, RowShort, RowNoReview, RowEmptyDest, RowBlankDest, RowPadded,
     RowAccent, RowBadByte, BlankLine}

MainRowPool == {RowOk, RowShort, RowBadByte}

FullHeader == required_review_fields

HeaderNoReview == <<"Destination", "District", "Location_Type">>

HeaderNoDistrict == <<"Destination", "Rating", "Location_Type", "Review">>

MissingCsv == [exists |-> FALSE, header |-> <<>>, rows |-> <<>>, ahead |-> 0]

Aheads(rows) == IF FirstBad(rows) = 0 THEN {0} ELSE -1..(FirstBad(rows) - 1)

CsvFilesOver(pool, headers, n) ==
    {MissingCsv} \cup
    UNION {{[exists |-> TRUE, header |-> h, rows |-> rs, ahead |-> a] : a \in Aheads(rs)} :
              h \in headers, rs \in SeqsUpTo(pool, n)}

CsvFiles == CsvFilesOver(RowPool, {FullHeader, HeaderNoReview, HeaderNoDistrict}, MaxCsvRows)

MainCsvFiles == CsvFilesOver(MainRowPool, {FullHeader, HeaderNoReview}, MainCsvRows)

Point(lon, lat) == JObj([type |-> JStr("Point"), coordinates |-> JArr(<<lon, lat>>)])

Loc(id, name, coords) ==
    JObj([locationId |-> JStr(id), name |-> JStr(name), coordinates |-> coords])

LocA == Loc("a", "n1", Point(JFloat(80), JFloat(7)))

LocA2 == Loc("a", "n2", Point(JFloat(81), JFloat(8)))

LocB == Loc("b", "n3", Point(JFloat(LonMax), JFloat(LatMin)))

LocInt == Loc("c", "n4", Point(JInt(80), JInt(7)))

LocLonOut == Loc("d", "n5", Point(JFloat(LonMax + 1), JFloat(7)))

LocLatOut == Loc("e", "n6", Point(JFloat(LonMin), JFloat(LatMax + 1)))

LocLonUnder == Loc("l", "n12", Point(JFloat(LonMin - 1), JFloat(7)))

LocLatUnder == Loc("m", "n13", Point(JFloat(80), JFloat(LatMin - 1)))

LocLowCorner == Loc("n", "n14", Point(JFloat(LonMin), JFloat(LatMin)))

LocHighCorner == Loc("o", "n15", Point(JInt(LonMax), JFloat(LatMax)))

LocNoCoordinates == JObj([locationId |-> JStr("f"), name |-> JStr("n7")])

LocLine ==
    Loc("g", "n8", JObj([type |-> JStr("LineString"),
                         coordinates |-> JArr(<<JFloat(80), JFloat(7)>>)]))

LocArity ==
    Loc("h", "n9", JObj([type |-> JStr("Point"),
                         coordinates |-> JArr(<<JFloat(80), JFloat(7), JFloat(0)>>)]))

LocTextCoordinate == Loc("i", "n10", Point(JStr("80"), JFloat(7)))

LocCoordinatesText == Loc("j", "n11", JStr("80,7"))

NotAnObject == JStr("k")

LocPool ==
    {LocA, LocA2, LocB, LocInt, LocLonOut, LocLatOut, LocNoCoordinates, LocLine,
     LocArity, LocTextCoordinate, LocCoordinatesText, NotAnObject, LocLonUnder,
     LocLatUnder, LocLowCorner, LocHighCorner}

MainLocPool == {LocA, LocA2, LocInt, LocTextCoordinate}

MissingJson == [exists |-> FALSE, valid |-> FALSE, data |-> JNull]

JsonFilesOver(pool, n) ==
    {MissingJson,
     [exists |-> TRUE, valid |-> FALSE, data |-> JNull],
     [exists |-> TRUE, valid |-> TRUE, data |-> JObj([locations |-> JArr(<<>>)])]}
    \cup {[exists |-> TRUE, valid |-> TRUE, data |-> JArr(es)] : es \in SeqsUpTo(pool, n)}

JsonFiles == JsonFilesOver(LocPool, MaxJsonElems)

MainJsonFiles == JsonFilesOver(MainLocPool, MainJsonElems)

\* A database that an earlier successful run has left behind.
StaleReview ==
    [destination |-> <<"o">>, district |-> <<"o">>, location_type |-> <<"o">>,
     review_text |-> Rep("o", 10)]

StaleDb ==
    LET d == create_indexes(create_collections(NoDb, 0), 0)
    IN  [d EXCEPT !.docs = [c \in Colls |->
                               IF c = REVIEWS_COLLECTION
                               THEN <<StaleReview>>
                               ELSE <<WithMetadata(LocB)>>]]

(***************************************************************************)
(* Long document lists for the store operations: n documents, those at the *)
(* marked positions being the ones the database may reject.                *)
(***************************************************************************)
Probes(n) ==
    IF n < BATCH_SIZE THEN 1..n
    ELSE {1, BATCH_SIZE, BATCH_SIZE + 1, BATCH_SIZE + 2, 2 * BATCH_SIZE + 1} \cap 1..n

\* Short lists have up to MaxMarked documents; the long ones are one full batch,
\* one batch and a document, and two batches and a half.
StoreSizes ==
    0..MaxMarked \cup {BATCH_SIZE, BATCH_SIZE + 1, 2 * BATCH_SIZE + BATCH_SIZE \div 2}

Marks(n) == {M \in SUBSET Probes(n) : Cardinality(M) <= MaxMarked}

\* A review document as validate_review builds it, and one whose text is too
\* short for the collection's validator.
GoodReview(k) ==
    [destination |-> <<ToString(k)>>, district |-> A1, location_type |-> A1,
     review_text |-> Rep("a", SchemaMinLength)]

ShortReview(k) ==
    [destination |-> <<ToString(k)>>, district |-> A1, location_type |-> A1,
     review_text |-> Rep("a", SchemaMinLength - 1)]

ReviewList(n, M) == [k \in 1..n |-> IF k \in M THEN ShortReview(k) ELSE GoodReview(k)]

ReviewLists == UNION {{ReviewList(n, M) : M \in Marks(n)} : n \in StoreSizes}

\* Location documents: the marked ones share the locationId "a"; with ints,
\* their coordinates are JSON integers.
LocationList(n, M, ints) ==
    [k \in 1..n |->
        WithMetadata(
            IF k \in M
            THEN Loc("a", ToString(k),
                     IF ints THEN Point(JInt(80), JInt(7)) ELSE Point(JFloat(80), JFloat(7)))
            ELSE Loc(ToString(k), ToString(k), Point(JFloat(80), JFloat(7))))]

LocationLists ==
    UNION {{LocationList(n, M, ints) : M \in Marks(n), ints \in BOOLEAN} : n \in StoreSizes}

FreshDb == create_collections(NoDb, 0)

FreshIndexedDb == create_indexes(FreshDb, 0)

(***************************************************************************)
(* State.                                                                  *)
(***************************************************************************)
VARIABLES
    driver,         \* who calls the operations: "main", "store" or "loader"
    csvFile,        \* Config.CSV_FILE on disk
    jsonFile,       \* Config.JSON_FILE on disk
    pc,             \* the step main() is at, or the operation in progress
    run,            \* number of the process
    calls,          \* calls made so far by the driver of the store operations
    reviews,        \* main's reviews / the argument of insert_reviews
    locations,      \* main's locations / the argument of insert_locations
    mongo_manager,  \* whether main's mongo_manager is set (not None)
    client,         \* MongoDBManager.client: "None", "open" or "closed"
    closes,         \* calls of client.close() in this process
    db,             \* the database
    ins,            \* the batch loop: [active, i, inserted, errors, base, uniq]
    reqs,           \* the insert_many requests of the latest insert call
    review_stats,   \* what insert_reviews returned
    location_stats, \* what insert_locations returned
    steps,          \* the steps this process has started, in order
    completed,      \* the steps this process has completed
    failed,         \* the step that raised, "" if none
    exc,            \* the exception it raised
    exitCode,       \* exit code of the process, -1 while it runs
    ops,            \* the writes this process has made to the database
    prev,           \* final counts of the previous process, if it succeeded
    csvRes,         \* result of load_csv_reviews (loader driver)
    jsonRes         \* result of load_json_locations (loader driver)

vars ==
    <<driver, csvFile, jsonFile, pc, run, calls, reviews, locations, mongo_manager,
      client, closes, db, ins, reqs, review_stats, location_stats, steps, completed,
      failed, exc, exitCode, ops, prev, csvRes, jsonRes>>

inputs == <<driver, csvFile, jsonFile>>

loaded == <<csvRes, jsonRes>>

conn == <<mongo_manager, client, closes>>

NoStats == [total |-> -1, inserted |-> -1, errors |-> -1]

NoFinal == [review_stats |-> NoStats, location_stats |-> NoStats, counts |-> <<-1, -1>>]

InsIdle ==
    [active |-> FALSE, i |-> 0, inserted |-> 0, errors |-> 0, base |-> 0, uniq |-> FALSE]

NoCsvRes == CsvResult("none", "none", <<>>, <<>>, 0)

NoJsonRes == JsonResult("none", <<>>, <<>>, 0)

StepOrder ==
    <<"LoadFiles", "Connect", "CreateSchemas", "InsertReviews", "InsertLocations",
      "CreateIndexes", "Report", "Disconnect">>

\* (a main() that builds the indexes before it inserts the locations)
NextStepIndexesFirst(step) ==
    CASE step = "LoadFiles"       -> "Connect"
      [] step = "Connect"         -> "CreateSchemas"
      [] step = "CreateSchemas"   -> "InsertReviews"
      [] step = "InsertReviews"   -> "CreateIndexes"
      [] step = "CreateIndexes"   -> "InsertLocations"
      [] step = "InsertLocations" -> "Report"
      [] step = "Report"          -> "Finally"

\* Where main() goes when a step returns.
NextStep(step) ==
    CASE step = "LoadFiles"       -> "Connect"
      [] step = "Connect"         -> "CreateSchemas"
      [] step = "CreateSchemas"   -> "InsertReviews"
      [] step = "InsertReviews"   -> "InsertLocations"
      [] step = "InsertLocations" -> "CreateIndexes"
      [] step = "CreateIndexes"   -> "Report"
      [] step = "Report"          -> "Finally"

\* The step returns to its caller.
Returns(step) ==
    /\ pc' = IF driver = "main" THEN NextStep(step) ELSE "idle"
    /\ completed' = Append(completed, step)
    /\ UNCHANGED <<failed, exc, exitCode>>

\* (a main() that reports the exception and goes on with the next step)
RaisesAndGoesOn(step, e) ==
    /\ pc' = IF driver = "main" THEN NextStep(step) ELSE "idle"
    /\ failed' = step
    /\ exc' = e
    /\ exitCode' = IF driver = "main" THEN 1 ELSE exitCode
    /\ UNCHANGED completed

\* The step raises e.  In main() every except clause ends in sys.exit(1), and
\* the finally clause runs on the way out.
Raises(step, e) ==
    /\ pc' = IF driver = "main" THEN "Finally" ELSE "idle"
    /\ failed' = step
    /\ exc' = e
    /\ exitCode' = IF driver = "main" THEN 1 ELSE exitCode
    /\ UNCHANGED completed

Started(step) == steps' = Append(steps, step)

(***************************************************************************)
(* main(): step 1, the two loads.                                          *)
(***************************************************************************)
LoadFiles ==
    /\ pc = "LoadFiles"
    /\ Started("LoadFiles")
    /\ LET c == load_csv_reviews(csvFile)
           j == load_json_locations(jsonFile)
       IN  IF c.status # "ok"
           THEN Raises("LoadFiles", c.status) /\ UNCHANGED <<reviews, locations>>
           ELSE IF j.status # "ok"
           THEN /\ Raises("LoadFiles", j.status)
                /\ reviews' = c.reviews
                /\ UNCHANGED locations
           ELSE /\ Returns("LoadFiles")
                /\ reviews' = c.reviews
                /\ locations' = j.locations
    /\ UNCHANGED <<inputs, run, calls, conn, db, ins, reqs, review_stats,
                   location_stats, ops, prev, loaded>>

(***************************************************************************)
(* main(): step 2, MongoDBManager(...) and connect().  MongoClient(...)    *)
(* may raise before self.client is set (ConfigurationError); the ping may  *)
(* raise ConnectionFailure or OperationFailure after it is set.            *)
(***************************************************************************)
ConnectOutcomes == {"ok", "ConfigurationError", "ConnectionFailure", "OperationFailure"}

\* self.client after connect(): a MongoClient(...) that raises assigns nothing.
connect(cl, outcome) == IF outcome = "ConfigurationError" THEN cl ELSE "open"

Connect ==
    /\ pc = "Connect"
    /\ Started("Connect")
    /\ mongo_manager' = TRUE
    /\ \E o \in ConnectOutcomes :
          /\ client' = connect(client, o)
          /\ IF o = "ok" THEN Returns("Connect") ELSE Raises("Connect", o)
    /\ UNCHANGED <<inputs, run, calls, reviews, locations, closes, db, ins, reqs,
                   review_stats, location_stats, ops, prev, loaded>>

(***************************************************************************)
(* Step 3, create_collections().                                           *)
(***************************************************************************)
CreateSchemas ==
    /\ pc = "CreateSchemas"
    /\ Started("CreateSchemas")
    /\ \E f \in 0..CreateStages :
          /\ db' = create_collections(db, f)
          /\ ops' = ops \o CreateOps(db, f)
          /\ IF f = 0 THEN Returns("CreateSchemas")
                      ELSE Raises("CreateSchemas", "OperationFailure")
    /\ UNCHANGED <<inputs, run, calls, reviews, locations, conn, ins, reqs,
                   review_stats, location_stats, prev, loaded>>

(***************************************************************************)
(* Steps 4 and 5, insert_reviews(reviews) and insert_locations(locations): *)
(* one insert_many request per action.  The request may also fail as a     *)
(* whole (the connection is lost), which is no BulkWriteError and leaves   *)
(* the method.                                                             *)
(***************************************************************************)
Stats(total, cur) == [total |-> total, inserted |-> cur.inserted, errors |-> cur.errors]

InsertBatch(step, coll, docs) ==
    LET total == Len(docs)
        cur   == IF ins.active THEN ins
                 ELSE [active |-> TRUE, i |-> 0, inserted |-> 0, errors |-> 0,
                       base |-> Len(db.docs[coll]), uniq |-> UniqueIndexed(db)]
        sofar == IF ins.active THEN reqs ELSE <<>>
        lo    == cur.i + 1
        hi    == Min(cur.i + BATCH_SIZE, total)
        batch == SubSeq(docs, lo, hi)
        r     == insert_many(db, coll, batch)
        h     == HandleBatch(cur, r, Len(batch))
        new   == [cur EXCEPT !.i = NextOffset(cur.i), !.inserted = h.inserted,
                             !.errors = h.errors]
        req   == [coll |-> coll, lo |-> lo, hi |-> hi, attempted |-> r.attempted,
                  nInserted |-> r.nInserted, nErrors |-> r.nErrors]
        ret(c) == IF coll = REVIEWS_COLLECTION
                  THEN review_stats' = Stats(total, c) /\ UNCHANGED location_stats
                  ELSE location_stats' = Stats(total, c) /\ UNCHANGED review_stats
    IN  /\ pc = step
        /\ steps' = IF ins.active THEN steps ELSE Append(steps, step)
        /\ IF total = 0
           THEN /\ Returns(step)
                /\ ret(cur)
                /\ ins' = [cur EXCEPT !.active = FALSE]
                /\ reqs' = sofar
                /\ UNCHANGED <<db, ops>>
           ELSE \E e \in {"none", "ConnectionFailure"} :
                   IF e # "none"
                   THEN /\ Raises(step, e)
                        /\ ins' = [cur EXCEPT !.active = FALSE]
                        /\ reqs' = sofar
                        /\ UNCHANGED <<db, ops, review_stats, location_stats>>
                   ELSE /\ db' = AfterInsert(db, coll, r)
                        /\ ops' = Append(ops, "insert")
                        /\ reqs' = Append(sofar, req)
                        /\ IF h.raised
                           THEN /\ Raises(step, "BulkWriteError")
                                /\ ins' = [new EXCEPT !.active = FALSE]
                                /\ UNCHANGED <<review_stats, location_stats>>
                           ELSE IF new.i >= total
                           THEN /\ Returns(step)
                                /\ ret(new)
                                /\ ins' = [new EXCEPT !.active = FALSE]
                           ELSE /\ ins' = new
                                /\ UNCHANGED <<pc, completed, failed, exc, exitCode,
                                               review_stats, location_stats>>
        /\ UNCHANGED <<inputs, run, calls, reviews, locations, conn, prev, loaded>>

InsertReviews == InsertBatch("InsertReviews", REVIEWS_COLLECTION, reviews)

InsertLocations == InsertBatch("InsertLocations", LOCATIONS_COLLECTION, locations)

(***************************************************************************)
(* Step 6, create_indexes().                                               *)
(***************************************************************************)
CreateIndexes ==
    /\ pc = "CreateIndexes"
    /\ Started("CreateIndexes")
    /\ \E f \in IndexFailures(db) :
          /\ db' = create_indexes(db, f)
          /\ ops' = ops \o IndexOps(f)
          /\ IF f = 0 THEN Returns("CreateIndexes")
                      ELSE Raises("CreateIndexes", "OperationFailure")
    /\ UNCHANGED <<inputs, run, calls, reviews, locations, conn, ins, reqs,
                   review_stats, location_stats, prev, loaded>>

(***************************************************************************)
(* main(): StatsReporter.generate_summary, which only reads.               *)
(***************************************************************************)
Report ==
    /\ pc = "Report"
    /\ Started("Report")
    /\ \E e \in {"none", "ConnectionFailure"} :
          IF e = "none" THEN Returns("Report") ELSE Raises("Report", e)
    /\ UNCHANGED <<inputs, run, calls, reviews, locations, conn, db, ins, reqs,
                   review_stats, location_stats, ops, prev, loaded>>

(***************************************************************************)
(* main(): the finally clause, "if mongo_manager: mongo_manager.disconnect()"*)
(* and the end of the process.  disconnect() closes whatever self.client   *)
(* holds.                                                                  *)
(***************************************************************************)
\* (a disconnect() that closes without looking at self.client)
disconnectNoGuard(cl) == [client |-> "closed", closes |-> 1]

\* (a disconnect() that closes nothing)
disconnectNever(cl) == [client |-> cl, closes |-> 0]

\* MongoDBManager.disconnect: the client afterwards and the number of close() calls.
disconnect(cl) ==
    IF cl # "None" THEN [client |-> "closed", closes |-> 1]
                   ELSE [client |-> cl, closes |-> 0]

Finally ==
    /\ pc = "Finally"
    /\ pc' = "Exited"
    /\ exitCode' = IF exitCode = -1 THEN 0 ELSE exitCode
    /\ IF mongo_manager
       THEN /\ Started("Disconnect")
            /\ client' = disconnect(client).client
            /\ closes' = closes + disconnect(client).closes
       ELSE UNCHANGED <<steps, client, closes>>
    /\ UNCHANGED <<inputs, run, calls, reviews, locations, mongo_manager, db, ins,
                   reqs, review_stats, location_stats, completed, failed, exc, ops,
                   prev, loaded>>

\* The counts a successful process ends with.
Final ==
    [review_stats |-> review_stats, location_stats |-> location_stats,
     counts |-> <<Len(db.docs[REVIEWS_COLLECTION]), Len(db.docs[LOCATIONS_COLLECTION])>>]

\* The script is started again on the same files and the same database.
Restart ==
    /\ pc = "Exited"
    /\ run < MaxRuns
    /\ run' = run + 1
    /\ pc' = "LoadFiles"
    /\ prev' = IF exitCode = 0 THEN Final ELSE NoFinal
    /\ reviews' = <<>>
    /\ locations' = <<>>
    /\ mongo_manager' = FALSE
    /\ client' = "None"
    /\ closes' = 0
    /\ ins' = InsIdle
    /\ reqs' = <<>>
    /\ review_stats' = NoStats
    /\ location_stats' = NoStats
    /\ steps' = <<>>
    /\ completed' = <<>>
    /\ failed' = ""
    /\ exc' = ""
    /\ exitCode' = -1
    /\ ops' = <<>>
    /\ UNCHANGED <<inputs, calls, db, loaded>>

ProcessStart ==
    /\ pc = "LoadFiles"
    /\ run = 1
    /\ calls = 0
    /\ reviews = <<>>
    /\ locations = <<>>
    /\ mongo_manager = FALSE
    /\ client = "None"
    /\ closes = 0
    /\ ins = InsIdle
    /\ reqs = <<>>
    /\ review_stats = NoStats
    /\ location_stats = NoStats
    /\ steps = <<>>
    /\ completed = <<>>
    /\ failed = ""
    /\ exc = ""
    /\ exitCode = -1
    /\ ops = <<>>
    /\ prev = NoFinal
    /\ csvRes = NoCsvRes
    /\ jsonRes = NoJsonRes

Init ==
    /\ driver = "main"
    /\ csvFile \in MainCsvFiles
    /\ jsonFile \in MainJsonFiles
    /\ db \in {NoDb, StaleDb}
    /\ ProcessStart

Next ==
    \/ LoadFiles
    \/ Connect
    \/ CreateSchemas
    \/ InsertReviews
    \/ InsertLocations
    \/ CreateIndexes
    \/ Report
    \/ Finally
    \/ Restart

Spec == Init /\ [][Next]_vars

(***************************************************************************)
(* insert_reviews and insert_locations on their own: a connected manager,  *)
(* a database on which create_collections, or create_collections and then  *)
(* create_indexes, has run, and a driver that calls the two methods on     *)
(* given document lists.                                                   *)
(***************************************************************************)
StoreCall ==
    /\ pc = "idle"
    /\ calls < MaxCalls
    /\ calls' = calls + 1
    /\ \E m \in {"InsertReviews", "InsertLocations"} : pc' = m
    /\ steps' = <<>>
    /\ completed' = <<>>
    /\ failed' = ""
    /\ exc' = ""
    /\ UNCHANGED <<inputs, run, reviews, locations, conn, db, ins, reqs, review_stats,
                   location_stats, exitCode, ops, prev, loaded>>

InitStore ==
    /\ driver = "store"
    /\ csvFile = MissingCsv
    /\ jsonFile = MissingJson
    /\ \/ reviews \in ReviewLists /\ locations = <<>>
       \/ reviews = <<>> /\ locations \in LocationLists
    /\ db \in {FreshDb, FreshIndexedDb}
    /\ pc = "idle"
    /\ run = 1
    /\ calls = 0
    /\ mongo_manager = TRUE
    /\ client = "open"
    /\ closes = 0
    /\ ins = InsIdle
    /\ reqs = <<>>
    /\ review_stats = NoStats
    /\ location_stats = NoStats
    /\ steps = <<>>
    /\ completed = <<>>
    /\ failed = ""
    /\ exc = ""
    /\ exitCode = -1
    /\ ops = <<>>
    /\ prev = NoFinal
    /\ csvRes = NoCsvRes
    /\ jsonRes = NoJsonRes

NextStore ==
    \/ StoreCall
    \/ InsertReviews
    \/ InsertLocations

SpecStore == InitStore /\ [][NextStore]_vars

(***************************************************************************)
(* The loaders on their own: each applied once to a file.                  *)
(***************************************************************************)
LoadCsv ==
    /\ pc = "loader"
    /\ csvRes = NoCsvRes
    /\ csvRes' = load_csv_reviews(csvFile)
    /\ UNCHANGED <<inputs, pc, run, calls, reviews, locations, conn, db, ins, reqs,
                   review_stats, location_stats, steps, completed, failed, exc,
                   exitCode, ops, prev, jsonRes>>

LoadJson ==
    /\ pc = "loader"
    /\ jsonRes = NoJsonRes
    /\ jsonRes' = load_json_locations(jsonFile)
    /\ UNCHANGED <<inputs, pc, run, calls, reviews, locations, conn, db, ins, reqs,
                   review_stats, location_stats, steps, completed, failed, exc,
                   exitCode, ops, prev, csvRes>>

InitLoader ==
    /\ driver = "loader"
    /\ \/ csvFile \in CsvFiles /\ jsonFile = MissingJson
       \/ csvFile = MissingCsv /\ jsonFile \in JsonFiles
    /\ db = NoDb
    /\ pc = "loader"
    /\ run = 1
    /\ calls = 0
    /\ reviews = <<>>
    /\ locations = <<>>
    /\ mongo_manager = FALSE
    /\ client = "None"
    /\ closes = 0
    /\ ins = InsIdle
    /\ reqs = <<>>
    /\ review_stats = NoStats
    /\ location_stats = NoStats
    /\ steps = <<>>
    /\ completed = <<>>
    /\ failed = ""
    /\ exc = ""
    /\ exitCode = -1
    /\ ops = <<>>
    /\ prev = NoFinal
    /\ csvRes = NoCsvRes
    /\ jsonRes = NoJsonRes

NextLoader == LoadCsv \/ LoadJson

SpecLoader == InitLoader /\ [][NextLoader]_vars


(***************************************************************************)
(* A MongoDBManager on its own: the object after __init__, and a caller    *)
(* that calls connect() and disconnect() in any order.  steps is the       *)
(* sequence of the calls made, completed the calls that returned.          *)
(***************************************************************************)
MaxManagerCalls == 3

ManagerCall ==
    /\ driver = "manager"
    /\ pc = "idle"
    /\ calls < MaxManagerCalls
    /\ calls' = calls + 1
    /\ \E m \in {"Connect", "Disconnect"} : pc' = m
    /\ UNCHANGED <<inputs, run, reviews, locations, conn, db, ins, reqs, review_stats,
                   location_stats, steps, completed, failed, exc, exitCode, ops, prev,
                   loaded>>

Disconnect ==
    /\ pc = "Disconnect"
    /\ Started("Disconnect")
    /\ client' = disconnect(client).client
    /\ closes' = closes + disconnect(client).closes
    /\ Returns("Disconnect")
    /\ UNCHANGED <<inputs, run, calls, reviews, locations, mongo_manager, db, ins, reqs,
                   review_stats, location_stats, ops, prev, loaded>>

InitManager ==
    /\ driver = "manager"
    /\ csvFile = MissingCsv
    /\ jsonFile = MissingJson
    /\ db \in {NoDb, StaleDb}
    /\ pc = "idle"
    /\ run = 1
    /\ calls = 0
    /\ reviews = <<>>
    /\ locations = <<>>
    /\ mongo_manager = TRUE
    /\ client = "None"
    /\ closes = 0
    /\ ins = InsIdle
    /\ reqs = <<>>
    /\ review_stats = NoStats
    /\ location_stats = NoStats
    /\ steps = <<>>
    /\ completed = <<>>
    /\ failed = ""
    /\ exc = ""
    /\ exitCode = -1
    /\ ops = <<>>
    /\ prev = NoFinal
    /\ csvRes = NoCsvRes
    /\ jsonRes = NoJsonRes

NextManager ==
    \/ ManagerCall
    \/ Connect
    \/ Disconnect

SpecManager == InitManager /\ [][NextManager]_vars

(***************************************************************************)
(* Properties of main().                                                   *)
(***************************************************************************)
IsPrefix(a, b) == Len(a) <= Len(b) /\ a = SubSeq(b, 1, Len(a))

Last(s) == s[Len(s)]

\* The steps of a process without the Disconnect that ends it.
WorkSteps(s) ==
    IF s # <<>> /\ Last(s) = "Disconnect" THEN SubSeq(s, 1, Len(s) - 1) ELSE s

WorkOrder == SubSeq(StepOrder, 1, Len(StepOrder) - 1)

\* C1, as stated: the steps a run has started are an initial part of LoadFiles,
\* Connect, CreateSchemas, InsertReviews, InsertLocations, CreateIndexes,
\* Report, Disconnect (nothing skipped, nothing repeated), every step but the
\* first started only after the step before it completed successfully, and
\* the run ends with Disconnect.  A run in which a step fails violates it:
\* Disconnect starts right after the failed step, or not at all.
C1_AsStated ==
    /\ IsPrefix(steps, StepOrder)
    /\ \A k \in 2..Len(steps) : steps[k - 1] \in Range(completed)
    /\ pc = "Exited" => steps # <<>> /\ Last(steps) = "Disconnect"

\* C1: the steps LoadFiles .. Report start in that order, none before the one
\* before it has completed successfully, none repeated and none skipped among
\* those started; a run in which all of them succeed performs all of them and
\* then Disconnect; after a failed step no further step of these starts;
\* Disconnect is started only as the last step of the run, and a run that has
\* constructed its manager (LoadFiles succeeded) ends with it.
C1_StepOrder ==
    /\ IsPrefix(WorkSteps(steps), WorkOrder)
    /\ IsPrefix(completed, WorkSteps(steps))
    /\ Len(completed) >= Len(WorkSteps(steps)) - 1
    /\ failed # "" => /\ WorkSteps(steps) = Append(completed, failed)
                      /\ pc \in {"Finally", "Exited"}
    /\ "Disconnect" \in Range(steps) => pc = "Exited"
    /\ pc = "Exited" /\ mongo_manager => Last(steps) = "Disconnect"
    /\ pc = "Exited" /\ ~mongo_manager => failed = "LoadFiles" /\ steps = <<"LoadFiles">>
    /\ pc = "Exited" /\ failed = "" => steps = StepOrder /\ completed = WorkOrder

C1_Witness ==
    /\ pc = "Exited"
    /\ failed = ""
    /\ steps = StepOrder
    /\ exitCode = 0

\* C2: a process releases its connection at most once and only on its way
\* out, and a process that created a client (the connection was opened) has
\* released it exactly once when it exits, whether every step succeeded or a
\* step after Connect failed.
C2_ReleasedOnce ==
    /\ closes \in {0, 1}
    /\ pc # "Exited" => closes = 0 /\ client # "closed"
    /\ pc = "Exited" /\ client # "None" => closes = 1 /\ client = "closed"
    /\ pc = "Exited" /\ "Connect" \in Range(completed) => closes = 1

C2_Witness ==
    /\ pc = "Exited"
    /\ failed = "InsertLocations"
    /\ "Connect" \in Range(completed)
    /\ closes = 1
    /\ client = "closed"

\* C3: when LoadFiles or Connect has failed, the process starts no later
\* step, has made no write of any kind to the database (no drop, create,
\* insert or index), and the database is as it was before the process.
C3_NoWriteBeforeAbort ==
    failed \in {"LoadFiles", "Connect"} =>
        /\ ops = <<>>
        /\ Range(steps) \subseteq {"LoadFiles", "Connect", "Disconnect"}
        /\ pc \in {"Finally", "Exited"}
        /\ exitCode = 1
        /\ run = 1 => db \in {NoDb, StaleDb}

C3_Witness ==
    /\ failed = "LoadFiles"
    /\ exc = "ValueError"
    /\ pc = "Exited"
    /\ db = StaleDb

\* C4: the locations collection never holds two documents with the same
\* locationId.
C4_UniqueLocationIds == ~HasDuplicateIds(db.docs[LOCATIONS_COLLECTION])

\* C5: a successful run that follows a successful run on the same files and
\* the same database ends with the counters (total, inserted, errors of both
\* inserts) and the collection sizes the first one ended with.
C5_SameCounts ==
    pc = "Exited" /\ exitCode = 0 /\ prev # NoFinal => Final = prev

C5_Witness ==
    /\ run = 2
    /\ pc = "Exited"
    /\ exitCode = 0
    /\ prev # NoFinal
    /\ Final = prev
    /\ prev.counts[1] > 0
    /\ prev.counts[2] > 0
    /\ prev.location_stats.errors > 0


(***************************************************************************)
(* Properties of insert_reviews and insert_locations.                      *)
(***************************************************************************)
\* The latest insert call has returned to its caller.
Returned == pc = "idle" /\ completed # <<>>

CallColl ==
    IF completed = <<"InsertReviews">> THEN REVIEWS_COLLECTION ELSE LOCATIONS_COLLECTION

CallDocs == IF CallColl = REVIEWS_COLLECTION THEN reviews ELSE locations

CallStats == IF CallColl = REVIEWS_COLLECTION THEN review_stats ELSE location_stats

\* Documents the latest call has added to the collection.
Persisted(coll) == Len(db.docs[coll]) - ins.base

Batches(n) == (n + BATCH_SIZE - 1) \div BATCH_SIZE

\* C6: a call on n documents that has returned has issued ceil(n / BATCH_SIZE)
\* requests, the j-th on the documents (j-1)*BATCH_SIZE+1 .. min(j*BATCH_SIZE, n)
\* of the input, and has returned total = n, inserted = the number of
\* documents it has added to the collection and errors = the number of
\* documents the writes have rejected.
C6_Batches ==
    Returned =>
        LET n == Len(CallDocs)
        IN  /\ Len(reqs) = Batches(n)
            /\ \A j \in 1..Len(reqs) :
                  /\ reqs[j].coll = CallColl
                  /\ reqs[j].lo = (j - 1) * BATCH_SIZE + 1
                  /\ reqs[j].hi = Min(j * BATCH_SIZE, n)
                  /\ j < Len(reqs) => reqs[j].hi - reqs[j].lo + 1 = BATCH_SIZE
            /\ CallStats.total = n
            /\ CallStats.inserted = Persisted(CallColl)
            /\ CallStats.errors = n - Persisted(CallColl)

\* 250 reviews, two of them too short for the validator, both in the middle batch.
C6_Witness ==
    /\ Returned
    /\ completed = <<"InsertReviews">>
    /\ Len(reviews) = 2 * BATCH_SIZE + BATCH_SIZE \div 2
    /\ Len(reqs) = 3
    /\ reqs[2].nErrors = 2
    /\ reqs[1].nErrors = 0
    /\ reqs[3].nErrors = 0
    /\ reqs[3].hi - reqs[3].lo + 1 = BATCH_SIZE \div 2
    /\ review_stats = [total |-> 2 * BATCH_SIZE + BATCH_SIZE \div 2,
                       inserted |-> 2 * BATCH_SIZE + BATCH_SIZE \div 2 - 2,
                       errors |-> 2]

\* C7: rejected documents never make an insert call raise; every request
\* attempts every document of its slice; the slices follow one another from
\* the first document on without gap or overlap, so that no document is sent
\* twice; and a call in which documents were rejected (and the connection was
\* not lost) goes on to the last document and returns its counters.
C7_ContinuesPastWriteErrors ==
    /\ exc # "BulkWriteError"
    /\ \A j \in 1..Len(reqs) : reqs[j].attempted = reqs[j].hi - reqs[j].lo + 1
    /\ reqs # <<>> => reqs[1].lo = 1
    /\ \A j \in 1..(Len(reqs) - 1) : reqs[j + 1].lo = reqs[j].hi + 1
    /\ pc = "idle" /\ reqs # <<>> /\ exc = "" =>
          /\ Returned
          /\ reqs[Len(reqs)].hi = Len(CallDocs)
          /\ CallStats.total = Len(CallDocs)
          /\ CallStats.errors = Len(CallDocs) - Persisted(CallColl)

\* A returned call whose first batch was partly rejected and which went on
\* through two more batches.
C7_Witness ==
    /\ Returned
    /\ Len(reqs) = 3
    /\ reqs[1].nErrors > 0
    /\ reqs[1].nInserted > 0
    /\ reqs[1].attempted = BATCH_SIZE
    /\ reqs[3].hi = Len(CallDocs)
    /\ CallStats.errors > 0

SameLocationId(docs) == \A i \in 1..Len(docs) : LocId(docs[i]) = LocId(docs[1])

\* An insert_locations call on k >= 2 documents of one locationId has returned,
\* and the unique index on locationId was there when it started.
SharedIdCall ==
    /\ Returned
    /\ completed = <<"InsertLocations">>
    /\ ins.uniq
    /\ Len(locations) >= 2
    /\ SameLocationId(locations)

OneInserted ==
    /\ Persisted(LOCATIONS_COLLECTION) = 1
    /\ location_stats.inserted = 1
    /\ location_stats.errors = Len(locations) - 1

ValidRows(file, enc) == ReadRows(file.header, file.rows, enc, Len(file.rows)).reviews

\* C9: a load that returns, on the UTF-8 path or on the latin-1 retry, returns
\* exactly the rows of the file that pass validation, each once, in file
\* order.
C9_ValidRowsOnce ==
    csvRes.status = "ok" => csvRes.reviews = ValidRows(csvFile, csvRes.path)

\* C10: a load of an existing file whose header lacks one of the four columns
\* ends in the ValueError of the header check, has validated no row and
\* returns no record, whichever decoding path it takes.
C10_HeaderChecked ==
    /\ csvRes # NoCsvRes
    /\ csvFile.exists
    /\ ~(expected_headers \subseteq Range(csvFile.header))
    => /\ csvRes.status = "ValueError"
       /\ csvRes.validated = 0
       /\ csvRes.reviews = <<>>

(***************************************************************************)
(* Properties of the loaders and the validators.                           *)
(***************************************************************************)
\* The rows of a CSV file that validate_review rejects (blank lines are no rows).
DefectiveRows(file, enc) ==
    {i \in 1..Len(file.rows) :
        /\ file.rows[i] # <<>>
        /\ ~validate_review(RowDict(file.header, file.rows[i], enc)).ok}

\* The elements of a JSON array that validate_location does not accept.
DefectiveElements(data) ==
    {i \in 1..Len(data) : validate_location(data[i]).outcome # "ok"}

\* C11: a load of a CSV file with the four columns, and a load of a JSON file
\* that holds an array, returns normally, with one recorded error for each
\* defective record and with every other record in its result.
C11_DefectsNeverAbort ==
    /\ /\ jsonRes # NoJsonRes
       /\ jsonFile.exists
       /\ jsonFile.valid
       /\ jsonFile.data.t = "arr"
       => /\ jsonRes.status = "ok"
          /\ Len(jsonRes.errors) = Cardinality(DefectiveElements(jsonFile.data.a))
          /\ Len(jsonRes.locations) =
                 Len(jsonFile.data.a) - Cardinality(DefectiveElements(jsonFile.data.a))
    /\ /\ csvRes # NoCsvRes
       /\ csvFile.exists
       /\ expected_headers \subseteq Range(csvFile.header)
       => /\ csvRes.status = "ok"
          /\ Len(csvRes.errors) = Cardinality(DefectiveRows(csvFile, csvRes.path))

\* The row has each of the four fields, with text that is not only blanks.
AllFieldsFilled(row) ==
    \A i \in 1..Len(required_review_fields) :
        /\ required_review_fields[i] \in DOMAIN row
        /\ row[required_review_fields[i]] # NoneVal
        /\ strip(row[required_review_fields[i]]) # <<>>

\* C12: every document that validate_review has returned to the loader has
\* its four fields non-empty and without surrounding blanks and a review_text
\* of at least 10 characters, and no row with an absent, empty or blank field
\* has been accepted.
C12_FieldsNonEmptyTrimmed ==
    /\ \A k \in 1..Len(csvRes.reviews) :
          LET d == csvRes.reviews[k]
          IN  /\ \A f \in {d.destination, d.district, d.location_type, d.review_text} :
                    f # <<>> /\ strip(f) = f
              /\ Len(d.review_text) >= MinReviewLen
    /\ csvRes.status = "ok" /\ csvRes.path = "utf-8" =>
          Len(csvRes.reviews) <=
              Cardinality({i \in 1..Len(csvFile.rows) :
                              /\ csvFile.rows[i] # <<>>
                              /\ AllFieldsFilled(RowDict(csvFile.header, csvFile.rows[i],
                                                         "utf-8"))})

\* A location with the three required fields whose coordinates object is a
\* Point with an array of two numbers [lon, lat].
HasLonLat(v) ==
    /\ v.t = "obj"
    /\ \A i \in 1..Len(required_location_fields) : required_location_fields[i] \in DOMAIN v.f
    /\ v.f["coordinates"].t = "obj"
    /\ Get(v.f["coordinates"], "type", JNull) = JStr("Point")
    /\ Get(v.f["coordinates"], "coordinates", JNull).t = "arr"
    /\ Len(v.f["coordinates"].f["coordinates"].a) = 2
    /\ \A i \in 1..2 : IsNum(v.f["coordinates"].f["coordinates"].a[i])

Lon(v) == v.f["coordinates"].f["coordinates"].a[1].n

Lat(v) == v.f["coordinates"].f["coordinates"].a[2].n

InRange(v) == -180 <= Lon(v) /\ Lon(v) <= 180 /\ -90 <= Lat(v) /\ Lat(v) <= 90

\* C13: of the elements [lon, lat] that a completed load has passed to
\* validate_location, those with lon outside [-180, 180] or lat outside
\* [-90, 90] were rejected with the out-of-range ValueError, and the others,
\* those on the bounds included, were accepted.
C13_OutOfRange ==
    jsonRes.status = "ok" =>
        \A i \in 1..Len(jsonFile.data.a) :
            LET v == jsonFile.data.a[i]
            IN  HasLonLat(v) =>
                    IF InRange(v)
                    THEN /\ WithMetadata(v) \in Range(jsonRes.locations)
                         /\ \A e \in Range(jsonRes.errors) : e[1] # i
                    ELSE <<i, "OutOfRange">> \in Range(jsonRes.errors)

\* A load that rejected a longitude just above and a latitude just below the
\* range and accepted the two corners of the range.
C13_Witness ==
    /\ jsonRes.status = "ok"
    /\ jsonFile.exists
    /\ \E i, j \in 1..Len(jsonFile.data.a) :
          /\ jsonFile.data.a[i] = LocHighCorner
          /\ jsonFile.data.a[j] = LocLatUnder
          /\ <<j, "OutOfRange">> \in Range(jsonRes.errors)
    /\ WithMetadata(LocHighCorner) \in Range(jsonRes.locations)

(***************************************************************************)
(* Properties of MongoDBManager.connect and disconnect.                    *)
(***************************************************************************)
\* C14, as stated: while no connect() call has succeeded, whether none was
\* made or those made have failed, no disconnect() call has closed a client
\* or raised.  After a connect() that failed at the ping, self.client holds
\* the client that was created, and disconnect() closes it.
C14_AsStated ==
    "Connect" \notin Range(completed) => closes = 0 /\ failed # "Disconnect"

\* C14: disconnect() never raises; while no connect() call has created a
\* client (none was made, or MongoClient(...) itself raised), disconnect()
\* closes nothing; once disconnect() has returned on a manager whose
\* connect() created a client, that client is closed, whether the connect()
\* succeeded or failed at the ping.
C14_DisconnectGuarded ==
    /\ failed # "Disconnect"
    /\ "Connect" \notin Range(steps) => closes = 0 /\ client = "None"
    /\ client = "None" => closes = 0
    /\ steps # <<>> /\ Last(steps) = "Disconnect" /\ pc = "idle" /\ client # "None" =>
          client = "closed" /\ closes >= 1
    /\ closes <= Cardinality({k \in 1..Len(steps) : steps[k] = "Disconnect"})

\* disconnect() was called before any connect() and closed nothing, and was
\* called again after a connect() that failed at the ping and closed its client.
C14_Witness ==
    /\ steps = <<"Disconnect", "Connect", "Disconnect">>
    /\ completed = <<"Disconnect", "Disconnect">>
    /\ failed = "Connect"
    /\ exc = "ConnectionFailure"
    /\ client = "closed"
    /\ closes = 1

(***************************************************************************)
(* Properties of the exit code of main().                                  *)
(***************************************************************************)
\* Both files are there and have the shape the loaders require: what is wrong
\* with them, if anything, is wrong with single records.
FilesWellFormed ==
    /\ csvFile.exists
    /\ expected_headers \subseteq Range(csvFile.header)
    /\ jsonFile.exists
    /\ jsonFile.valid
    /\ jsonFile.data.t = "arr"

\* C15: a process exits with code 0 if every step of the workflow completed
\* and with code 1 otherwise; and when the files are well-formed and no step
\* from Connect on has failed, defective records and rejected documents
\* leave the exit code at 0.
C15_ExitCodes ==
    pc = "Exited" =>
        /\ exitCode \in {0, 1}
        /\ exitCode = 0 <=> completed = WorkOrder
        /\ failed # "" => exitCode = 1
        /\ FilesWellFormed /\ failed \in {"", "LoadFiles"} => exitCode = 0

(***************************************************************************)
(* Properties of create_indexes.                                           *)
(***************************************************************************)
\* The eleven indexes of the claim: collection, keys, uniqueness.
ExpectedIndexes ==
    << <<"reviews", <<<<"review_text", "TEXT">>>>, FALSE>>,
       <<"reviews", <<<<"destination", "ASCENDING">>>>, FALSE>>,
       <<"reviews", <<<<"district", "ASCENDING">>>>, FALSE>>,
       <<"reviews", <<<<"location_type", "ASCENDING">>>>, FALSE>>,
       <<"reviews", <<<<"destination", "ASCENDING">>, <<"location_type", "ASCENDING">>>>,
         FALSE>>,
       <<"reviews", <<<<"created_at", "DESCENDING">>>>, FALSE>>,
       <<"locations", <<<<"coordinates", "GEOSPHERE">>>>, FALSE>>,
       <<"locations", <<<<"locationId", "ASCENDING">>>>, TRUE>>,
       <<"locations", <<<<"name", "ASCENDING">>>>, FALSE>>,
       <<"locations", <<<<"category", "ASCENDING">>>>, FALSE>>,
       <<"locations", <<<<"name", "TEXT">>, <<"details.description", "TEXT">>,
                        <<"details.historicalInfo", "TEXT">>>>, FALSE>> >>

\* The index of the plan that has the given name.
Planned(name) == CHOOSE k \in 1..Len(IndexPlan) : IndexPlan[k].name = name

\* The indexes of the database, those of reviews first, as the claim lists them.
IndexesInPlace ==
    LET names == db.indexes[REVIEWS_COLLECTION] \o db.indexes[LOCATIONS_COLLECTION]
    IN  [j \in 1..Len(names) |->
            <<IndexPlan[Planned(names[j])].coll, IndexPlan[Planned(names[j])].keys,
              IndexPlan[Planned(names[j])].unique>>]

IndexRequestsDone == Cardinality({j \in 1..Len(ops) : ops[j] = "index"})

\* C16: once main() has called create_indexes, the indexes in place are the
\* first n of the eleven of the claim, in its order, n being the number of
\* create_index requests that succeeded; n is 11 when the call returned; when
\* it raised, n < 11, the indexes before the failing one are in place, it and
\* those after it are not, the documents inserted are all still there, and
\* the error has left main().
C16_IndexOrder ==
    "CreateIndexes" \in Range(steps) =>
        /\ \A c \in Colls : \A name \in Range(db.indexes[c]) :
              \E k \in 1..Len(IndexPlan) : IndexPlan[k].name = name /\ IndexPlan[k].coll = c
        /\ IndexesInPlace = SubSeq(ExpectedIndexes, 1, IndexRequestsDone)
        /\ "CreateIndexes" \in Range(completed) => IndexRequestsDone = 11
        /\ failed = "CreateIndexes" =>
              /\ IndexRequestsDone < 11
              /\ exc = "OperationFailure"
              /\ exitCode = 1
              /\ pc \in {"Finally", "Exited"}
              /\ Len(db.docs[REVIEWS_COLLECTION]) = review_stats.inserted
              /\ Len(db.docs[LOCATIONS_COLLECTION]) = location_stats.inserted

\* create_index 9 raised: eight indexes, the unique one among them, are in
\* place, and the documents are there.
C16_Witness ==
    /\ failed = "CreateIndexes"
    /\ IndexRequestsDone = 8
    /\ Len(db.indexes[REVIEWS_COLLECTION]) = 6
    /\ db.indexes[LOCATIONS_COLLECTION] = <<"coordinates_geospatial_index", UNIQUE_INDEX>>
    /\ Len(db.docs[REVIEWS_COLLECTION]) > 0
    /\ Len(db.docs[LOCATIONS_COLLECTION]) > 0

(***************************************************************************)
(* Properties of the counters of insert_reviews and insert_locations.      *)
(***************************************************************************)
\* C17: the counters an insert call has returned add up: inserted + errors =
\* total, and each of inserted and errors lies between 0 and total.
C17_CountersAddUp ==
    \A s \in {review_stats, location_stats} :
        s # NoStats =>
            /\ s.inserted + s.errors = s.total
            /\ 0 <= s.inserted /\ s.inserted <= s.total
            /\ 0 <= s.errors /\ s.errors <= s.total

\* 101 locations under the unique index, with rejected documents in both
\* batches.
C17_Witness ==
    /\ Returned
    /\ completed = <<"InsertLocations">>
    /\ location_stats.total = BATCH_SIZE + 1
    /\ Len(reqs) = 2
    /\ reqs[1].nErrors > 0
    /\ reqs[2].nErrors > 0
    /\ location_stats.inserted > 0
    /\ location_stats.errors = reqs[1].nErrors + reqs[2].nErrors

=============================================================================
